---- MODULE Spec2Model ----
(***************************************************************************)
(* Personal finance tracker: the sqlite table "transactions", the desktop  *)
(* handlers of finance_tracker_GUI.py that write and analyse it, and the   *)
(* read-only query endpoints of finance_tracker_api.py.                    *)
(*                                                                         *)
(* Text is a sequence of one-character strings, so that the regular        *)
(* expression of validate_date, float(), strftime and LIKE are computed    *)
(* character by character.  Amounts are fixed-point numbers in hundredths  *)
(* (40.33 is 4033): binary floating-point rounding of sums is not modelled.*)
(* A nullable value is <<>> (NULL / NaN) or <<v>>.                         *)
(***************************************************************************)
EXTENDS Integers, Sequences, FiniteSets, TLC

VARIABLES
    tableExists,       \* the store file holds the table transactions
    rows,              \* the committed records of the table, in rowid order
    seq,               \* sqlite_sequence: the largest id the table has given
    out,               \* the last handler run, its inputs and what it reported
    issued,            \* history: the largest id any committed record was given
    conn               \* the connection of an upload_csv under way, or Null

vars == <<tableExists, rows, seq, out, issued, conn>>

\* Largest number of records the store is let grow to.
MaxRows == 2

Null == <<>>
Some(v) == <<v>>
IsNull(o) == o = <<>>
Val(o) == o[1]

Max(a, b) == IF a >= b THEN a ELSE b

----------------------------------------------------------------------------
\* Text helpers

Digits == <<"0", "1", "2", "3", "4", "5", "6", "7", "8", "9">>

IsDigit(c) == \E i \in 1..10 : Digits[i] = c

DigitVal(c) == (CHOOSE i \in 1..10 : Digits[i] = c) - 1

AllDigits(s) == \A i \in 1..Len(s) : IsDigit(s[i])

RECURSIVE NatOf(_)
NatOf(s) == IF s = <<>> THEN 0
            ELSE 10 * NatOf(SubSeq(s, 1, Len(s) - 1)) + DigitVal(s[Len(s)])

\* Position of the first "." of s, or 0.
DotAt(s) == IF \E i \in 1..Len(s) : s[i] = "."
            THEN CHOOSE i \in 1..Len(s) : s[i] = "." /\ \A j \in 1..(i - 1) : s[j] # "."
            ELSE 0

\* float(text) for plain decimal literals: an optional sign, digits, and an
\* optional point followed by at most two digits; Null is ValueError.  The
\* other spellings float() reads (exponents, inf, nan, surrounding blanks,
\* underscores) are outside the inputs drawn here.
UnsignedFloat(s) ==
    LET d == DotAt(s)
        ip == IF d = 0 THEN s ELSE SubSeq(s, 1, d - 1)
        fp == IF d = 0 THEN <<>> ELSE SubSeq(s, d + 1, Len(s))
    IN  IF AllDigits(ip) /\ AllDigits(fp) /\ Len(ip) + Len(fp) > 0 /\ Len(fp) <= 2
        THEN Some(100 * NatOf(ip) +
                  (IF Len(fp) = 1 THEN 10 * NatOf(fp) ELSE NatOf(fp)))
        ELSE Null

float(text) ==
    IF text # <<>> /\ text[1] \in {"-", "+"}
    THEN LET u == UnsignedFloat(Tail(text))
         IN  IF IsNull(u) THEN Null
             ELSE IF text[1] = "-" THEN Some(0 - Val(u)) ELSE u
    ELSE UnsignedFloat(text)

----------------------------------------------------------------------------
\* Validation

\* re.match(r"^\d{4}-\d{2}-\d{2}$", date)
validate_date(date) ==
    /\ Len(date) = 10
    /\ \A i \in {1, 2, 3, 4, 6, 7, 9, 10} : IsDigit(date[i])
    /\ date[5] = "-"
    /\ date[8] = "-"

\* validate_amount accepting zero (>= for >).
validate_amount_nonneg(amount) ==
    LET f == float(amount)
    IN  IF IsNull(f) THEN FALSE ELSE Val(f) >= 0

\* float(amount) > 0, False on ValueError
validate_amount(amount) ==
    LET f == float(amount)
    IN  IF IsNull(f) THEN FALSE ELSE Val(f) > 0

----------------------------------------------------------------------------
\* Storage: the table and its AUTOINCREMENT counter (sqlite_sequence)

\* insert that leaves the id counter where it was: the next record is given
\* the same id again.
insert_same_seq(tbl, date, category, amount, description) ==
    IF IsNull(date) \/ IsNull(category) \/ IsNull(amount)
    THEN [ok |-> FALSE, rows |-> tbl.rows, seq |-> tbl.seq]
    ELSE [ok |-> TRUE,
          rows |-> Append(tbl.rows,
                          [id |-> tbl.seq + 1,
                           date |-> Val(date),
                           category |-> Val(category),
                           amount |-> Val(amount),
                           description |-> description]),
          seq |-> tbl.seq]

\* insert binding three of the four values: the description is left NULL.
insert_no_description(tbl, date, category, amount, description) ==
    IF IsNull(date) \/ IsNull(category) \/ IsNull(amount)
    THEN [ok |-> FALSE, rows |-> tbl.rows, seq |-> tbl.seq]
    ELSE [ok |-> TRUE,
          rows |-> Append(tbl.rows,
                          [id |-> tbl.seq + 1,
                           date |-> Val(date),
                           category |-> Val(category),
                           amount |-> Val(amount),
                           description |-> Null]),
          seq |-> tbl.seq + 1]

\* INSERT INTO transactions (date, category, amount, description) VALUES
\* (?, ?, ?, ?) on the table tbl = [rows, seq].  The arguments are nullable;
\* date, category and amount are NOT NULL columns, and a NaN is bound as
\* NULL.  The new id is one more than the largest id ever given.
insert(tbl, date, category, amount, description) ==
    IF IsNull(date) \/ IsNull(category) \/ IsNull(amount)
    THEN [ok |-> FALSE, rows |-> tbl.rows, seq |-> tbl.seq]
    ELSE [ok |-> TRUE,
          rows |-> Append(tbl.rows,
                          [id |-> tbl.seq + 1,
                           date |-> Val(date),
                           category |-> Val(category),
                           amount |-> Val(amount),
                           description |-> description]),
          seq |-> tbl.seq + 1]

\* What a handler leaves to see: its name, the inputs it read, its outcome
\* and what it shows or returns.
Output(op, args, status, body) ==
    [op |-> op, args |-> args, status |-> status, body |-> body]

\* init_db without the DROP TABLE: an existing table is kept as it is.
init_db_no_drop ==
    /\ tableExists' = TRUE
    /\ out' = Output("init_db", <<>>, "initialized", <<>>)
    /\ UNCHANGED <<rows, seq, issued, conn>>

\* DROP TABLE IF EXISTS transactions; CREATE TABLE IF NOT EXISTS ...; commit.
\* Dropping the table also deletes its sqlite_sequence row.
init_db ==
    /\ tableExists' = TRUE
    /\ rows' = <<>>
    /\ seq' = 0
    /\ out' = Output("init_db", <<>>, "initialized", <<>>)
    /\ UNCHANGED <<issued, conn>>

\* add_transaction with the four prompts answered by date, category,
\* amount and description (the later prompts are not reached after a
\* failed validation).
add_transaction(date, category, amount, description) ==
    /\ UNCHANGED <<tableExists, conn>>
    /\ IF ~validate_date(date)
       THEN /\ out' = Output("add_transaction", <<date>>, "invalid_date", <<>>)
            /\ UNCHANGED <<rows, seq, issued>>
       ELSE IF ~validate_amount(amount)
       THEN /\ out' = Output("add_transaction", <<date, category, amount>>,
                              "invalid_amount", <<>>)
            /\ UNCHANGED <<rows, seq, issued>>
       ELSE LET r == insert([rows |-> rows, seq |-> seq], Some(date),
                            Some(category), float(amount), Some(description))
            IN  /\ rows' = r.rows
                /\ seq' = r.seq
                /\ issued' = Max(issued, r.seq)
                /\ out' = Output("add_transaction",
                                 <<date, category, amount, description>>,
                                 "added", <<>>)

\* pd.read_csv(file_path): a file is modelled by the frame it parses to,
\* [columns, rows], each row a function from the columns to nullable cells
\* (an empty cell is NaN).  A file with no header raises EmptyDataError.
pd_read_csv(file) == IF file.columns = {} THEN Null ELSE Some(file)

required_columns == {"date", "category", "amount", "description"}

\* any(...) for all(...): one required column is enough.
has_any_required_column(df) == \E col \in required_columns : col \in df.columns

\* all(col in df.columns for col in required_columns)
has_required_columns(df) == \A col \in required_columns : col \in df.columns

\* The loop with the checks of add_transaction applied to every row: a row
\* whose date or amount is invalid raises.
RECURSIVE insert_rows_validated(_, _)
insert_rows_validated(tbl, dfrows) ==
    IF dfrows = <<>> THEN [ok |-> TRUE, rows |-> tbl.rows, seq |-> tbl.seq]
    ELSE LET row == Head(dfrows)
         IN  IF \/ ~({"date", "category", "amount", "description"} \subseteq DOMAIN row)
                \/ IsNull(row["date"]) \/ IsNull(row["amount"])
                \/ ~validate_date(Val(row["date"]))
                \/ Val(row["amount"]) <= 0
             THEN [ok |-> FALSE, rows |-> tbl.rows, seq |-> tbl.seq]
             ELSE
             LET r == insert(tbl, row["date"], row["category"], row["amount"],
                             row["description"])
             IN
             IF ~r.ok THEN r
             ELSE insert_rows_validated([rows |-> r.rows, seq |-> r.seq],
                                        Tail(dfrows))

\* The loop over df.iterrows(): one INSERT per data row, in file order, on
\* one connection; it stops at the first row whose cell lookup (KeyError)
\* or execute raises.
RECURSIVE insert_rows(_, _)
insert_rows(tbl, dfrows) ==
    IF dfrows = <<>> THEN [ok |-> TRUE, rows |-> tbl.rows, seq |-> tbl.seq]
    ELSE LET row == Head(dfrows)
         IN  IF ~({"date", "category", "amount", "description"} \subseteq DOMAIN row)
             THEN [ok |-> FALSE, rows |-> tbl.rows, seq |-> tbl.seq]
             ELSE
             LET r == insert(tbl, row["date"], row["category"], row["amount"],
                             row["description"])
             IN
             IF ~r.ok THEN r
             ELSE insert_rows([rows |-> r.rows, seq |-> r.seq], Tail(dfrows))

\* upload_csv with the file dialog answered by file_path (Null: cancelled).
\* The single commit follows the loop; when an execute raises, the handler
\* returns without commit and the discarded connection rolls back.  This is
\* the handler as the form alone sees it; its steps, as a reader of the
\* store sees them, are upload_csv_connect to connection_dealloc below.
upload_csv(file_path) ==
    /\ UNCHANGED <<tableExists, conn>>
    /\ IF IsNull(file_path)
       THEN /\ out' = Output("upload_csv", file_path, "cancelled", <<>>)
            /\ UNCHANGED <<rows, seq, issued>>
       ELSE LET df == pd_read_csv(Val(file_path))
            IN  IF IsNull(df)
                THEN /\ out' = Output("upload_csv", file_path, "failed", <<>>)
                     /\ UNCHANGED <<rows, seq, issued>>
                ELSE IF ~has_required_columns(Val(df))
                THEN /\ out' = Output("upload_csv", file_path, "invalid_csv", <<>>)
                     /\ UNCHANGED <<rows, seq, issued>>
                ELSE LET r == insert_rows([rows |-> rows, seq |-> seq],
                                          Val(df).rows)
                     IN  IF r.ok
                         THEN /\ rows' = r.rows
                              /\ seq' = r.seq
                              /\ issued' = Max(issued, r.seq)
                              /\ out' = Output("upload_csv", file_path,
                                               "uploaded", <<>>)
                         ELSE /\ out' = Output("upload_csv", file_path,
                                               "failed", <<>>)
                              /\ UNCHANGED <<rows, seq, issued>>

\* upload_csv in the steps other programs can see between.  Up to the loop:
\* the dialog, pd.read_csv and the column check end the handler as in
\* upload_csv; otherwise sqlite3.connect opens conn, whose transaction starts
\* from the committed store (rows, seq) and is seen by nobody else.  The
\* field before is history: the committed store when the import began.
upload_csv_connect(file_path) ==
    /\ IsNull(conn)
    /\ UNCHANGED <<tableExists, rows, seq, issued>>
    /\ IF IsNull(file_path)
       THEN /\ out' = Output("upload_csv", file_path, "cancelled", <<>>)
            /\ UNCHANGED conn
       ELSE LET df == pd_read_csv(Val(file_path))
            IN  IF IsNull(df)
                THEN /\ out' = Output("upload_csv", file_path, "failed", <<>>)
                     /\ UNCHANGED conn
                ELSE IF ~has_required_columns(Val(df))
                THEN /\ out' = Output("upload_csv", file_path, "invalid_csv", <<>>)
                     /\ UNCHANGED conn
                ELSE /\ out' = Output("upload_csv", file_path, "importing", <<>>)
                     /\ conn' = Some([file_path |-> file_path,
                                       df |-> Val(df),
                                       next |-> 1,
                                       rows |-> rows,
                                       seq |-> seq,
                                       pc |-> "loop",
                                       before |-> rows])

\* One pass of the loop with every INSERT committed as it is executed (a
\* connection in autocommit mode).
upload_csv_execute_autocommit ==
    /\ ~IsNull(conn)
    /\ Val(conn).pc = "loop"
    /\ Val(conn).next <= Len(Val(conn).df.rows)
    /\ UNCHANGED tableExists
    /\ LET c == Val(conn)
           row == c.df.rows[c.next]
           r == insert([rows |-> c.rows, seq |-> c.seq], row["date"],
                       row["category"], row["amount"], row["description"])
       IN  IF r.ok
           THEN /\ conn' = Some([c EXCEPT !.rows = r.rows, !.seq = r.seq,
                                         !.next = c.next + 1])
                /\ rows' = r.rows
                /\ seq' = r.seq
                /\ issued' = Max(issued, r.seq)
                /\ UNCHANGED out
           ELSE /\ conn' = Some([c EXCEPT !.pc = "except"])
                /\ out' = Output("upload_csv", c.file_path, "failed", <<>>)
                /\ UNCHANGED <<rows, seq, issued>>

\* One pass of the loop: cursor.execute of the INSERT for the next data row,
\* inside the transaction of conn.  When it raises, control passes to the
\* except clause, which shows the failure; conn stays open, uncommitted.
upload_csv_execute ==
    /\ ~IsNull(conn)
    /\ Val(conn).pc = "loop"
    /\ Val(conn).next <= Len(Val(conn).df.rows)
    /\ UNCHANGED <<tableExists, rows, seq, issued>>
    /\ LET c == Val(conn)
           row == c.df.rows[c.next]
           r == insert([rows |-> c.rows, seq |-> c.seq], row["date"],
                       row["category"], row["amount"], row["description"])
       IN  IF r.ok
           THEN /\ conn' = Some([c EXCEPT !.rows = r.rows, !.seq = r.seq,
                                         !.next = c.next + 1])
                /\ UNCHANGED out
           ELSE /\ conn' = Some([c EXCEPT !.pc = "except"])
                /\ out' = Output("upload_csv", c.file_path, "failed", <<>>)

\* After the last row: conn.commit(), conn.close() and the success message.
upload_csv_commit ==
    /\ ~IsNull(conn)
    /\ Val(conn).pc = "loop"
    /\ Val(conn).next > Len(Val(conn).df.rows)
    /\ rows' = Val(conn).rows
    /\ seq' = Val(conn).seq
    /\ issued' = Max(issued, Val(conn).seq)
    /\ conn' = Null
    /\ out' = Output("upload_csv", Val(conn).file_path, "uploaded", <<>>)
    /\ UNCHANGED tableExists

\* The handler returns from the except clause.  conn was neither committed
\* nor closed: no name refers to it any more, but it stays open, with its
\* transaction and the write lock of the store, until it is collected.
upload_csv_return ==
    /\ ~IsNull(conn)
    /\ Val(conn).pc = "except"
    /\ conn' = Some([Val(conn) EXCEPT !.pc = "garbage"])
    /\ UNCHANGED <<tableExists, rows, seq, out, issued>>

\* The interpreter frees the abandoned connection (at once where objects
\* are freed by reference count, at a later collection where the connection
\* is part of a reference cycle): sqlite closes it and rolls its
\* transaction back.
connection_dealloc ==
    /\ ~IsNull(conn)
    /\ Val(conn).pc = "garbage"
    /\ conn' = Null
    /\ UNCHANGED <<tableExists, rows, seq, out, issued>>

\* add_transaction while an abandoned connection holds the write lock: the
\* INSERT raises sqlite3.OperationalError (database is locked), which the
\* handler catches and reports.
add_transaction_locked(date, category, amount, description) ==
    /\ UNCHANGED <<tableExists, rows, seq, issued, conn>>
    /\ IF ~validate_date(date)
       THEN out' = Output("add_transaction", <<date>>, "invalid_date", <<>>)
       ELSE IF ~validate_amount(amount)
       THEN out' = Output("add_transaction", <<date, category, amount>>,
                          "invalid_amount", <<>>)
       ELSE out' = Output("add_transaction",
                          <<date, category, amount, description>>,
                          "error", <<>>)

\* upload_csv while an abandoned connection holds the write lock: the first
\* INSERT on the new connection raises (database is locked), nothing is
\* inserted on it, and a file without data rows is committed as it is.
upload_csv_locked(file_path) ==
    /\ UNCHANGED <<tableExists, rows, seq, issued, conn>>
    /\ IF IsNull(file_path)
       THEN out' = Output("upload_csv", file_path, "cancelled", <<>>)
       ELSE LET df == pd_read_csv(Val(file_path))
            IN  IF IsNull(df)
                THEN out' = Output("upload_csv", file_path, "failed", <<>>)
                ELSE IF ~has_required_columns(Val(df))
                THEN out' = Output("upload_csv", file_path, "invalid_csv", <<>>)
                ELSE IF Val(df).rows = <<>>
                THEN out' = Output("upload_csv", file_path, "uploaded", <<>>)
                ELSE out' = Output("upload_csv", file_path, "failed", <<>>)

\* SELECT * FROM transactions; the rows are listed, or "No Data" is shown.
view_transactions ==
    /\ out' = IF rows = <<>>
              THEN Output("view_transactions", <<>>, "no_data", <<>>)
              ELSE Output("view_transactions", <<>>, "shown", rows)
    /\ UNCHANGED <<tableExists, rows, seq, issued, conn>>

----------------------------------------------------------------------------
\* Aggregation in the desktop form (pandas)

RECURSIVE SumAmounts(_)
SumAmounts(rs) == IF rs = <<>> THEN 0 ELSE Head(rs).amount + SumAmounts(Tail(rs))

IsLeap(y) == (y % 4 = 0 /\ y % 100 # 0) \/ y % 400 = 0

DaysInMonth(y, m) ==
    IF m = 2 THEN (IF IsLeap(y) THEN 29 ELSE 28)
    ELSE IF m \in {4, 6, 9, 11} THEN 30 ELSE 31

\* The year, month and day fields of a text in the 4-2-2 digit pattern.
YmdOf(date) == [Y |-> NatOf(SubSeq(date, 1, 4)),
                M |-> NatOf(SubSeq(date, 6, 7)),
                D |-> NatOf(SubSeq(date, 9, 10))]

\* pd.to_datetime on one stored date text: the timestamp, or Null where it
\* raises ValueError (a text that is no date, or no day of the calendar).
\* Texts in other date formats, which pandas may also read, are not drawn.
pd_to_datetime(date) ==
    IF ~validate_date(date) THEN Null
    ELSE LET d == YmdOf(date)
         IN  IF d.M \in 1..12 /\ d.D >= 1 /\ d.D <= DaysInMonth(d.Y, d.M)
             THEN Some(d) ELSE Null

\* dt.to_period('M')
to_period_M(ts) == [Y |-> ts.Y, M |-> ts.M]

PeriodIndex(p) == 12 * p.Y + p.M

\* The elements of the finite set S in ascending order of Key.
SortedBy(S, Key(_)) ==
    CHOOSE s \in [1..Cardinality(S) -> S] :
        \A i, j \in 1..Cardinality(S) : i < j => Key(s[i]) < Key(s[j])

\* df.groupby("category")["amount"].sum()
category_summary(df) ==
    [c \in {df[i].category : i \in 1..Len(df)} |->
        SumAmounts(SelectSeq(df, LAMBDA r : r.category = c))]

\* df.groupby("month")["amount"].sum(), the month column holding
\* to_period('M') of the parsed dates; groupby sorts its keys.
monthly_summary(df) ==
    LET month(r) == to_period_M(Val(pd_to_datetime(r.date)))
        keys == SortedBy({month(df[i]) : i \in 1..Len(df)}, PeriodIndex)
    IN  [k \in 1..Len(keys) |->
            [month |-> keys[k],
             total |-> SumAmounts(SelectSeq(df, LAMBDA r : month(r) = keys[k]))]]

\* analyze_spending_gui: only sqlite3.Error is caught, so the ValueError of
\* pd.to_datetime (line 179) leaves the handler before any summary is
\* computed or shown.
analyze_spending_gui ==
    /\ UNCHANGED <<tableExists, rows, seq, issued, conn>>
    /\ IF rows = <<>>
       THEN out' = Output("analyze_spending_gui", <<>>, "no_data", <<>>)
       ELSE IF \E i \in 1..Len(rows) : IsNull(pd_to_datetime(rows[i].date))
       THEN out' = Output("analyze_spending_gui", <<>>, "uncaught_ValueError", <<>>)
       ELSE out' = Output("analyze_spending_gui", <<>>, "shown",
                          [category_summary |-> category_summary(rows),
                           monthly_summary |-> monthly_summary(rows)])

----------------------------------------------------------------------------
\* The query endpoints (finance_tracker_api.py)

\* printf("%04d-%02d") of a year and a month, as strftime('%Y-%m') prints.
FormatYm(y, m) ==
    <<Digits[((y \div 1000) % 10) + 1], Digits[((y \div 100) % 10) + 1],
      Digits[((y \div 10) % 10) + 1], Digits[(y % 10) + 1], "-",
      Digits[((m \div 10) % 10) + 1], Digits[(m % 10) + 1]>>

\* strftime with the format '%Y-%d': the day printed where the month belongs.
strftime_Yd(date, normalizes) ==
    IF ~validate_date(date) THEN Null
    ELSE LET d == YmdOf(date)
         IN  IF d.M \notin 1..12 \/ d.D \notin 1..31 THEN Null
             ELSE Some(FormatYm(d.Y, d.D))

\* strftime('%Y-%m', date) of sqlite on a stored text: YYYY-MM-DD is read
\* with the month in 01..12 and the day in 01..31, anything else drawn here
\* is no date and gives NULL (the time-of-day, 'now' and julian-day forms
\* sqlite also reads are not drawn).  A day past the end of its month is
\* carried into the next month by the sqlite builds that normalise such a
\* date, and kept as written by the builds that do not.
strftime_Ym(date, normalizes) ==
    IF ~validate_date(date) THEN Null
    ELSE LET d == YmdOf(date)
         IN  IF d.M \notin 1..12 \/ d.D \notin 1..31 THEN Null
             ELSE IF normalizes /\ d.D > DaysInMonth(d.Y, d.M)
             THEN Some(FormatYm(d.Y, d.M + 1))
             ELSE Some(FormatYm(d.Y, d.M))

\* The place of a month key in the order of GROUP BY: NULL first, then the
\* YYYY-MM texts ascending.
MonthKeyIndex(k) ==
    IF IsNull(k) THEN 0 - 1
    ELSE 12 * NatOf(SubSeq(Val(k), 1, 4)) + NatOf(SubSeq(Val(k), 6, 7))

\* SELECT strftime('%Y-%m', date) AS month, SUM(amount) AS total_spent
\* FROM transactions GROUP BY month
select_monthly_summary(tbl, normalizes) ==
    LET month(r) == strftime_Ym(r.date, normalizes)
        keys == SortedBy({month(tbl[i]) : i \in 1..Len(tbl)}, MonthKeyIndex)
    IN  [k \in 1..Len(keys) |->
            [month |-> keys[k],
             total_spent |->
                 SumAmounts(SelectSeq(tbl, LAMBDA r : month(r) = keys[k]))]]

Upper == <<"A", "B", "C", "D", "E", "F", "G", "H", "I", "J", "K", "L", "M",
           "N", "O", "P", "Q", "R", "S", "T", "U", "V", "W", "X", "Y", "Z">>

Lower == <<"a", "b", "c", "d", "e", "f", "g", "h", "i", "j", "k", "l", "m",
           "n", "o", "p", "q", "r", "s", "t", "u", "v", "w", "x", "y", "z">>

\* LIKE folds the case of ASCII letters.
Fold(c) == IF \E i \in 1..26 : Upper[i] = c
           THEN Lower[CHOOSE i \in 1..26 : Upper[i] = c]
           ELSE c

\* text LIKE pattern: % is any run of characters, _ is any one character,
\* every other character matches itself without regard to ASCII case.
RECURSIVE Like(_, _)
Like(text, pattern) ==
    IF pattern = <<>> THEN text = <<>>
    ELSE IF Head(pattern) = "%"
    THEN Like(text, Tail(pattern)) \/ (text # <<>> /\ Like(Tail(text), pattern))
    ELSE IF text = <<>> THEN FALSE
    ELSE IF Head(pattern) = "_" THEN Like(Tail(text), Tail(pattern))
    ELSE Fold(Head(pattern)) = Fold(Head(text)) /\ Like(Tail(text), Tail(pattern))

\* GET /transactions
get_all_transactions ==
    /\ out' = Output("get_all_transactions", <<>>, "200", rows)
    /\ UNCHANGED <<tableExists, rows, seq, issued, conn>>

\* request.args.get('min_amount', type=float): None when the parameter is
\* absent or float() raises.
get_min_amount(arg) == IF IsNull(arg) THEN Null ELSE float(Val(arg))

\* The body of /transactions/above_amount: "not min_amount" is true of None
\* and of 0.0.
above_amount_response(tbl, arg) ==
    LET min_amount == get_min_amount(arg)
    IN  IF IsNull(min_amount) \/ min_amount = Some(0)
        THEN Output("get_transactions_above_amount", arg, "400", <<>>)
        ELSE Output("get_transactions_above_amount", arg, "200",
                    SelectSeq(tbl, LAMBDA r : r.amount > Val(min_amount)))

\* GET /transactions/above_amount with the query parameter arg (Null: absent)
get_transactions_above_amount(arg) ==
    /\ out' = above_amount_response(rows, arg)
    /\ UNCHANGED <<tableExists, rows, seq, issued, conn>>

\* GET /transactions/monthly_summary, answered by a sqlite build of either
\* kind.
get_monthly_spending_summary ==
    /\ \E normalizes \in BOOLEAN :
          out' = Output("get_monthly_spending_summary", <<>>, "200",
                        select_monthly_summary(rows, normalizes))
    /\ UNCHANGED <<tableExists, rows, seq, issued, conn>>

\* The keyword query with the pattern keyword% (the leading % left out).
keyword_response_prefix(tbl, arg) ==
    IF IsNull(arg) \/ arg = Some(<<>>)
    THEN Output("get_transactions_by_keyword", arg, "400", <<>>)
    ELSE Output("get_transactions_by_keyword", arg, "200",
                SelectSeq(tbl, LAMBDA r :
                    /\ ~IsNull(r.description)
                    /\ Like(Val(r.description), Val(arg) \o <<"%">>)))

\* The body of /transactions/keyword: "not keyword" is true of None and of
\* the empty text; a NULL description matches no pattern.
keyword_response(tbl, arg) ==
    IF IsNull(arg) \/ arg = Some(<<>>)
    THEN Output("get_transactions_by_keyword", arg, "400", <<>>)
    ELSE Output("get_transactions_by_keyword", arg, "200",
                SelectSeq(tbl, LAMBDA r :
                    /\ ~IsNull(r.description)
                    /\ Like(Val(r.description), <<"%">> \o Val(arg) \o <<"%">>)))

\* GET /transactions/keyword with the query parameter arg (Null: absent)
get_transactions_by_keyword(arg) ==
    /\ out' = keyword_response(rows, arg)
    /\ UNCHANGED <<tableExists, rows, seq, issued, conn>>

\* The ASCII code of a character of the texts drawn.
Ascii(c) ==
    IF IsDigit(c) THEN 48 + DigitVal(c)
    ELSE IF \E i \in 1..26 : Upper[i] = c
    THEN 64 + (CHOOSE i \in 1..26 : Upper[i] = c)
    ELSE IF \E i \in 1..26 : Lower[i] = c
    THEN 96 + (CHOOSE i \in 1..26 : Lower[i] = c)
    ELSE CASE c = "%" -> 37
           [] c = "-" -> 45
           [] c = "." -> 46
           [] c = "_" -> 95

\* The comparison of two TEXT values under the BINARY collation: memcmp on
\* the common length, then the shorter text first; negative, zero or
\* positive.
RECURSIVE memcmp(_, _)
memcmp(a, b) ==
    IF a = <<>> /\ b = <<>> THEN 0
    ELSE IF a = <<>> THEN 0 - 1
    ELSE IF b = <<>> THEN 1
    ELSE IF Head(a) # Head(b) THEN Ascii(Head(a)) - Ascii(Head(b))
    ELSE memcmp(Tail(a), Tail(b))

\* The date range query with the upper end left out of the range
\* (date >= ? AND date < ?).
date_range_response_exclusive(tbl, start_date, end_date) ==
    IF IsNull(start_date) \/ start_date = Some(<<>>)
       \/ IsNull(end_date) \/ end_date = Some(<<>>)
    THEN Output("get_transactions_by_date_range", <<start_date, end_date>>,
                "400", <<>>)
    ELSE Output("get_transactions_by_date_range", <<start_date, end_date>>,
                "200",
                SelectSeq(tbl, LAMBDA r :
                    /\ memcmp(r.date, Val(start_date)) >= 0
                    /\ memcmp(r.date, Val(end_date)) < 0))

\* The body of /transactions/date_range: "not start_date or not end_date"
\* is true when either is None or the empty text, and the error is returned
\* before a connection is opened; otherwise
\* SELECT * FROM transactions WHERE date BETWEEN ? AND ?
date_range_response(tbl, start_date, end_date) ==
    IF IsNull(start_date) \/ start_date = Some(<<>>)
       \/ IsNull(end_date) \/ end_date = Some(<<>>)
    THEN Output("get_transactions_by_date_range", <<start_date, end_date>>,
                "400", <<>>)
    ELSE Output("get_transactions_by_date_range", <<start_date, end_date>>,
                "200",
                SelectSeq(tbl, LAMBDA r :
                    /\ memcmp(r.date, Val(start_date)) >= 0
                    /\ memcmp(r.date, Val(end_date)) <= 0))

\* GET /transactions/date_range with the query parameters start_date and
\* end_date (Null: absent)
get_transactions_by_date_range(start_date, end_date) ==
    /\ out' = date_range_response(rows, start_date, end_date)
    /\ UNCHANGED <<tableExists, rows, seq, issued, conn>>

\* The body of /transactions/category: "not category" is true of None and
\* of the empty text; otherwise SELECT * FROM transactions WHERE category = ?
category_response(tbl, arg) ==
    IF IsNull(arg) \/ arg = Some("")
    THEN Output("get_transactions_by_category", arg, "400", <<>>)
    ELSE Output("get_transactions_by_category", arg, "200",
                SelectSeq(tbl, LAMBDA r : r.category = Val(arg)))

\* GET /transactions/category with the query parameter arg (Null: absent)
get_transactions_by_category(arg) ==
    /\ out' = category_response(rows, arg)
    /\ UNCHANGED <<tableExists, rows, seq, issued, conn>>

----------------------------------------------------------------------------
\* The texts typed, imported and queried in the runs explored

T_2024_05_01 == <<"2", "0", "2", "4", "-", "0", "5", "-", "0", "1">>

T_2024_05_31 == <<"2", "0", "2", "4", "-", "0", "5", "-", "3", "1">>

T_2024_02_30 == <<"2", "0", "2", "4", "-", "0", "2", "-", "3", "0">>

T_2024_03_01 == <<"2", "0", "2", "4", "-", "0", "3", "-", "0", "1">>

T_2024_05_32 == <<"2", "0", "2", "4", "-", "0", "5", "-", "3", "2">>

T_01_05_2024 == <<"0", "1", "-", "0", "5", "-", "2", "0", "2", "4">>

T_2024_5_1 == <<"2", "0", "2", "4", "-", "5", "-", "1">>

T_2024_05 == <<"2", "0", "2", "4", "-", "0", "5">>

T_soon == <<"s", "o", "o", "n">>

T_40_33 == <<"4", "0", ".", "3", "3">>

T_100_50 == <<"1", "0", "0", ".", "5", "0">>

T_minus_50 == <<"-", "5", "0">>

T_0 == <<"0">>

T_abc == <<"a", "b", "c">>

T_100 == <<"1", "0", "0">>

T_empty == <<>>

T_x == <<"x">>

T_Food == <<"F", "o", "o", "d">>

T_food == <<"f", "o", "o", "d">>

T_oo == <<"o", "o">>

T_a_b == <<"a", "_", "b">>

T_underscore == <<"_">>

T_percent == <<"%">>

\* What is typed at the prompts of add_transaction
InputDates == {T_2024_05_01, T_2024_02_30, T_01_05_2024, T_2024_5_1}

InputCategories == {"Transportation", "Food"}

InputAmounts == {T_40_33, T_100_50, T_minus_50, T_0, T_abc}

InputDescriptions == {T_empty, T_x}

\* One data row of a frame with the four required columns.
Row(date, category, amount, description) ==
    [c \in required_columns |->
        CASE c = "date" -> date
          [] c = "category" -> category
          [] c = "amount" -> amount
          [] c = "description" -> description]

\* A frame without the column c.
Without(df, c) ==
    [columns |-> df.columns \ {c},
     rows |-> [i \in 1..Len(df.rows) |->
                  [k \in (DOMAIN df.rows[i]) \ {c} |-> df.rows[i][k]]]]

\* A file of one row that add_transaction would refuse: no date, a negative
\* amount, an empty description cell; and a column the importer ignores.
CsvUnvalidated ==
    [columns |-> required_columns \cup {"note"},
     rows |-> <<Row(Some(T_soon), Some("Food"), Some(0 - 5000), Null)
                  @@ ("note" :> Some(T_x))>>]

\* A file of two rows, the second with the amount zero.
CsvTwoRows ==
    [columns |-> required_columns,
     rows |-> <<Row(Some(T_2024_03_01), Some("Rent"), Some(10050), Some(T_x)),
                Row(Some(T_2024_05_01), Some("Food"), Some(0), Some(T_Food))>>]

\* A file whose second row has an empty amount cell.
CsvEmptyAmount ==
    [columns |-> required_columns,
     rows |-> <<Row(Some(T_2024_03_01), Some("Rent"), Some(10050), Some(T_x)),
                Row(Some(T_2024_05_01), Some("Food"), Null, Some(T_Food))>>]

\* A file with no header line.
CsvEmpty == [columns |-> {}, rows |-> <<>>]

\* A file whose first row has an empty date cell.
CsvEmptyDate ==
    [columns |-> required_columns,
     rows |-> <<Row(Null, Some("Food"), Some(4033), Some(T_Food)),
                Row(Some(T_2024_03_01), Some("Rent"), Some(10050), Some(T_x))>>]

CsvFiles ==
    {CsvUnvalidated, CsvTwoRows, CsvEmptyAmount, CsvEmpty}
        \cup {Without(CsvTwoRows, c) : c \in required_columns}

----------------------------------------------------------------------------
\* The desktop form

\* The state once main_gui has run init_db and shows the form.
Init ==
    /\ tableExists = TRUE
    /\ rows = <<>>
    /\ seq = 0
    /\ out = Output("init_db", <<>>, "initialized", <<>>)
    /\ issued = 0
    /\ conn = Null

\* The program is started again: main_gui calls init_db.
main_gui == init_db

AddTransaction ==
    /\ Len(rows) < MaxRows
    /\ \E date \in InputDates, category \in InputCategories,
          amount \in InputAmounts, description \in InputDescriptions :
          add_transaction(date, category, amount, description)

UploadCsv ==
    \/ upload_csv(Null)
    \/ \E file \in CsvFiles :
          /\ upload_csv(Some(file))
          /\ Len(rows') <= MaxRows

Next ==
    \/ main_gui
    \/ AddTransaction
    \/ UploadCsv
    \/ view_transactions
    \/ analyze_spending_gui

Spec == Init /\ [][Next]_vars

----------------------------------------------------------------------------
\* The desktop form writing and the query server reading the same store

\* What is typed at the prompts in these runs: date, category, amount and
\* description of each entry.
ApiEntries ==
    {<<T_2024_05_01, "Food", T_40_33, T_Food>>,
     <<T_2024_05_31, "Food", T_100_50, T_empty>>,
     <<T_2024_03_01, "Rent", T_40_33, T_a_b>>,
     <<T_2024_05_32, "Rent", T_40_33, T_empty>>,
     <<T_01_05_2024, "Food", T_40_33, T_empty>>,
     <<T_2024_05_01, "Food", T_minus_50, T_empty>>}

ApiCsvFiles == {CsvUnvalidated, CsvTwoRows}

\* The min_amount and keyword query parameters sent (Null: not sent)
MinAmountArgs ==
    {Null, Some(T_abc), Some(T_0), Some(T_minus_50), Some(T_40_33), Some(T_100)}

KeywordArgs ==
    {Null, Some(T_empty), Some(T_food), Some(T_oo), Some(T_underscore),
     Some(T_percent), Some(T_x)}

\* The start_date and end_date query parameters sent (Null: not sent)
DateArgs ==
    {Null, Some(T_empty), Some(T_2024_03_01), Some(T_2024_05), Some(T_2024_05_01),
     Some(T_2024_05_31)}

\* The category query parameters sent (Null: not sent)
CategoryArgs == {Null, Some(""), Some("Food"), Some("food")}

AddTransactionApi ==
    /\ Len(rows) < MaxRows
    /\ \E e \in ApiEntries : add_transaction(e[1], e[2], e[3], e[4])

UploadCsvApi ==
    \E file \in ApiCsvFiles :
        /\ upload_csv(Some(file))
        /\ Len(rows') <= MaxRows

GetAboveAmount == \E arg \in MinAmountArgs : get_transactions_above_amount(arg)

GetByKeyword == \E arg \in KeywordArgs : get_transactions_by_keyword(arg)

GetByDateRange ==
    \E start_date \in DateArgs, end_date \in DateArgs :
        get_transactions_by_date_range(start_date, end_date)

GetByCategory == \E arg \in CategoryArgs : get_transactions_by_category(arg)

NextApi ==
    \/ main_gui
    \/ AddTransactionApi
    \/ UploadCsvApi
    \/ get_all_transactions
    \/ GetAboveAmount
    \/ get_monthly_spending_summary
    \/ GetByKeyword
    \/ GetByDateRange
    \/ GetByCategory
    \/ analyze_spending_gui

SpecApi == Init /\ [][NextApi]_vars

----------------------------------------------------------------------------
\* An import in its steps, with the query server reading between them

ImportFiles ==
    {CsvUnvalidated, CsvTwoRows, CsvEmptyAmount, CsvEmptyDate, CsvEmpty,
     Without(CsvTwoRows, "amount")}

\* The form runs one handler at a time: while upload_csv is under way no
\* other handler of the form starts.
FormIdle == IF IsNull(conn) THEN TRUE ELSE Val(conn).pc = "garbage"

\* An abandoned connection holds the write lock of the store.
StoreLocked == IF IsNull(conn) THEN FALSE ELSE Val(conn).pc = "garbage"

MainGuiIdle == IsNull(conn) /\ main_gui

AddTransactionIdle == IsNull(conn) /\ AddTransactionApi

AddTransactionLocked ==
    /\ StoreLocked
    /\ \E e \in ApiEntries : add_transaction_locked(e[1], e[2], e[3], e[4])

UploadCsvLocked ==
    /\ StoreLocked
    /\ \E file \in ImportFiles : upload_csv_locked(Some(file))

ViewTransactionsIdle == FormIdle /\ view_transactions

\* The store is let grow to MaxRows committed records.
UploadCsvConnect ==
    \/ upload_csv_connect(Null)
    \/ \E file \in ImportFiles :
          /\ Len(insert_rows([rows |-> rows, seq |-> seq], file.rows).rows)
                <= MaxRows
          /\ upload_csv_connect(Some(file))

NextImport ==
    \/ MainGuiIdle
    \/ AddTransactionIdle
    \/ ViewTransactionsIdle
    \/ UploadCsvConnect
    \/ upload_csv_execute
    \/ upload_csv_commit
    \/ upload_csv_return
    \/ connection_dealloc
    \/ AddTransactionLocked
    \/ UploadCsvLocked
    \/ get_all_transactions

SpecImport == Init /\ [][NextImport]_vars

----------------------------------------------------------------------------
\* Properties

\* A date in the form of four digits, a dash, two digits, a dash, two digits.
MatchesPattern(date) ==
    /\ Len(date) = 10
    /\ AllDigits(SubSeq(date, 1, 4)) /\ SubSeq(date, 5, 5) = <<"-">>
    /\ AllDigits(SubSeq(date, 6, 7)) /\ SubSeq(date, 8, 8) = <<"-">>
    /\ AllDigits(SubSeq(date, 9, 10))

\* An amount text that is a number strictly greater than zero.
IsPositiveNumber(amount) == ~IsNull(float(amount)) /\ Val(float(amount)) > 0

\* C1: add_transaction writes nothing when validation fails: whenever the
\* date typed does not match the 4-2-2 digit pattern, or the amount typed is
\* not a number strictly greater than zero, the handler reports the invalid
\* input and the stored records (and the id counter) are exactly those
\* before the call.
C1_NoWriteOnInvalidInput ==
    [][(/\ out'.op = "add_transaction"
        /\ \/ ~MatchesPattern(out'.args[1])
           \/ Len(out'.args) >= 3 /\ ~IsPositiveNumber(out'.args[3]))
       => (/\ rows' = rows
           /\ seq' = seq
           /\ out'.status \in {"invalid_date", "invalid_amount"})]_vars

\* An invalid amount was refused on a store that holds a record.
C1_Witness ==
    /\ out.op = "add_transaction"
    /\ out.status = "invalid_amount"
    /\ ~IsPositiveNumber(out.args[3])
    /\ Len(rows) = 1

C3_InitDbResets ==
    [][out'.op = "init_db" => (tableExists' /\ rows' = <<>> /\ seq' = 0)]_vars

\* init_db has emptied a store to which records had been added.
C3_Witness ==
    /\ out.op = "init_db"
    /\ issued >= 2
    /\ tableExists
    /\ rows = <<>>

\* The header of a file lacks one of the four columns.
LacksColumn(file) ==
    \E c \in {"date", "category", "amount", "description"} : c \notin file.columns

\* C4: a CSV import whose header lacks one of the columns date, category,
\* amount, description is rejected in full by the schema check: it is
\* reported as an invalid CSV, no row is inserted and the store is the one
\* before the import, whatever data rows the file holds.
C4_MissingColumnRejected ==
    [][(/\ out'.op = "upload_csv"
        /\ ~IsNull(out'.args)
        /\ LacksColumn(Val(out'.args)))
       => (/\ rows' = rows
           /\ seq' = seq
           /\ Val(out'.args).columns # {} => out'.status = "invalid_csv")]_vars

\* A file with data rows and no amount column was refused on a store that
\* holds a record.
C4_Witness ==
    /\ out.op = "upload_csv"
    /\ out.status = "invalid_csv"
    /\ "amount" \notin Val(out.args).columns
    /\ Val(out.args).rows # <<>>
    /\ rows # <<>>

\* Every data row of the file has a date, a category and an amount.
NoEmptyCell(file) ==
    \A k \in 1..Len(file.rows) :
        \A c \in {"date", "category", "amount"} : ~IsNull(file.rows[k][c])

NewPlaces == IF out'.op = "init_db" THEN {} ELSE (Len(rows) + 1)..Len(rows')

\* No two stored records share an id, and a step other than init_db leaves
\* every stored record, its id included, as it was.
IdsKept ==
    /\ \A i, j \in 1..Len(rows') : rows'[i].id = rows'[j].id => i = j
    /\ out'.op # "init_db" => SubSeq(rows', 1, Len(rows)) = rows

\* C6 as claimed: record ids are unique and monotonically increasing after
\* any sequence of init_db, add_transaction and upload_csv: no two stored
\* records share an id, an id once assigned never changes, and each newly
\* created record receives an id strictly greater than the id of every
\* record created before it.
C6_IdsIncreaseForever ==
    [][/\ IdsKept
       /\ \A i \in NewPlaces :
             /\ rows'[i].id > issued
             /\ \A j \in NewPlaces : j < i => rows'[j].id < rows'[i].id]_vars

\* C6 as amended: no two stored records share an id, an id once assigned
\* never changes while the record is stored, and each newly created record
\* receives an id strictly greater than the id of every record created
\* since the last init_db (init_db drops the id counter with the table).
C6_IdsIncreaseSinceInitDb ==
    [][/\ IdsKept
       /\ \A i \in NewPlaces :
             \A j \in 1..(i - 1) : rows'[j].id < rows'[i].id]_vars

\* Two records were created one after the other, and then, after init_db,
\* a record was given the id 1 again.
C6_Witness ==
    /\ issued >= 2
    /\ out.op \in {"add_transaction", "upload_csv"}
    /\ Len(rows) = 1
    /\ rows[1].id = 1

RECURSIVE SetSum(_, _)
SetSum(f, S) == IF S = {} THEN 0
                ELSE LET c == CHOOSE x \in S : TRUE
                     IN  f[c] + SetSum(f, S \ {c})

\* The per-category totals the analysis has put on the form (none when it
\* showed "No Data" or ended in an exception).
ShownCategorySummary ==
    IF out.status = "shown" THEN out.body.category_summary ELSE <<>>

\* C7: the category summary is the exact per-category sum over the whole
\* store: for every store state the summary shown by the analysis has one
\* entry for each category that occurs in a record and none for any other,
\* each total is the sum of the amounts of exactly the records of that
\* category, and the totals add up to the sum of all stored amounts.
C7_CategorySummaryExact ==
    out.op = "analyze_spending_gui"
    => LET cats == {rows[i].category : i \in 1..Len(rows)}
       IN  /\ DOMAIN ShownCategorySummary = cats
           /\ \A c \in cats :
                 ShownCategorySummary[c] =
                     SumAmounts(SelectSeq(rows, LAMBDA r : r.category = c))
           /\ SetSum(ShownCategorySummary, cats) = SumAmounts(rows)

\* The characters of the texts drawn, in ASCII order.
Alphabet == <<"%", "-", ".">> \o Digits \o Upper \o <<"_">> \o Lower

CharRank(c) == CHOOSE i \in 1..Len(Alphabet) : Alphabet[i] = c

\* a sorts strictly before b as a string.
RECURSIVE TextLess(_, _)
TextLess(a, b) ==
    IF b = <<>> THEN FALSE
    ELSE IF a = <<>> THEN TRUE
    ELSE IF Head(a) = Head(b) THEN TextLess(Tail(a), Tail(b))
    ELSE CharRank(Head(a)) < CharRank(Head(b))

\* The first 7 characters of a date text.
Prefix7(date) == SubSeq(date, 1, IF Len(date) < 7 THEN Len(date) ELSE 7)

\* The buckets of the monthly summary last computed, as key and total: the
\* rows of /transactions/monthly_summary, or the months of the chart of the
\* analysis (a pandas month is written YYYY-MM); none when the analysis
\* showed nothing.
MonthlyBuckets ==
    IF out.op = "get_monthly_spending_summary"
    THEN [k \in 1..Len(out.body) |->
             [key |-> out.body[k].month, total |-> out.body[k].total_spent]]
    ELSE IF out.status = "shown"
    THEN [k \in 1..Len(out.body.monthly_summary) |->
             [key |-> Some(FormatYm(out.body.monthly_summary[k].month.Y,
                                    out.body.monthly_summary[k].month.M)),
              total |-> out.body.monthly_summary[k].total]]
    ELSE <<>>

\* b holds one bucket for each 7-character date prefix in the store, keyed
\* by the prefix, with the sum of the amounts of the records that have it,
\* in ascending order of the key.
GroupsByPrefix(b) ==
    /\ \A i \in 1..Len(rows) :
          \E k \in 1..Len(b) : b[k].key = Some(Prefix7(rows[i].date))
    /\ \A k \in 1..Len(b) :
          \E i \in 1..Len(rows) :
             /\ b[k].key = Some(Prefix7(rows[i].date))
             /\ b[k].total =
                    SumAmounts(SelectSeq(rows, LAMBDA r :
                                   Prefix7(r.date) = Prefix7(rows[i].date)))
    /\ \A k, l \in 1..Len(b) :
          k < l => TextLess(Val(b[k].key), Val(b[l].key))

\* A date text YYYY-MM-DD that names a day of the calendar.
IsCalendarDate(date) ==
    /\ MatchesPattern(date)
    /\ YmdOf(date).M \in 1..12
    /\ YmdOf(date).D \in 1..DaysInMonth(YmdOf(date).Y, YmdOf(date).M)

MonthlySummaryComputed ==
    out.op \in {"get_monthly_spending_summary", "analyze_spending_gui"}

C9_AboveAmountForEveryNumber ==
    out.op = "get_transactions_above_amount"
    => IF ~IsNull(out.args) /\ ~IsNull(float(Val(out.args)))
       THEN /\ out.status = "200"
            /\ out.body = SelectSeq(rows, LAMBDA r :
                              r.amount > Val(float(Val(out.args))))
       ELSE out.status = "400"

\* kw occurs in text as a contiguous run of characters.
Contains(text, kw) ==
    \E i \in 1..(Len(text) - Len(kw) + 1) : SubSeq(text, i, i + Len(kw) - 1) = kw

FoldText(text) == [i \in 1..Len(text) |-> Fold(text[i])]

HasDescription(r, kw, folded) ==
    /\ ~IsNull(r.description)
    /\ IF folded THEN Contains(FoldText(Val(r.description)), FoldText(kw))
       ELSE Contains(Val(r.description), kw)

KeywordAsked ==
    /\ out.op = "get_transactions_by_keyword"
    /\ ~IsNull(out.args)
    /\ Val(out.args) # <<>>

\* C10 as claimed: for every non-empty keyword /transactions/keyword lists
\* exactly the records whose description contains the keyword as a literal
\* contiguous substring (% and _ and letter case matched literally).
C10_LiteralSubstring ==
    KeywordAsked
    => /\ out.status = "200"
       /\ out.body = SelectSeq(rows, LAMBDA r :
                         HasDescription(r, Val(out.args), FALSE))

\* C10 as amended: for every non-empty keyword the response lists stored
\* records that have a description, in store order, among them every
\* record whose description contains the keyword literally; for a keyword
\* without % and _ it lists exactly the records whose description contains
\* the keyword compared without regard to the case of ASCII letters.
C10_LikeSubstring ==
    KeywordAsked
    => /\ out.status = "200"
       /\ \E keep \in SUBSET (1..Len(rows)) :
             out.body = [k \in 1..Cardinality(keep) |->
                            rows[CHOOSE i \in keep :
                                    Cardinality({j \in keep : j <= i}) = k]]
       /\ \A k \in 1..Len(out.body) : ~IsNull(out.body[k].description)
       /\ \A i \in 1..Len(rows) :
             HasDescription(rows[i], Val(out.args), FALSE)
             => \E k \in 1..Len(out.body) : out.body[k] = rows[i]
       /\ (\A i \in 1..Len(Val(out.args)) : Val(out.args)[i] \notin {"%", "_"})
          => out.body = SelectSeq(rows, LAMBDA r :
                            HasDescription(r, Val(out.args), TRUE))

\* The keyword food has listed a record described as Food.
C10_Witness ==
    /\ out.op = "get_transactions_by_keyword"
    /\ out.args = Some(T_food)
    /\ out.status = "200"
    /\ \E k \in 1..Len(out.body) : out.body[k].description = Some(T_Food)

\* a sorts before b as a string, or is b.
TextLeq(a, b) == a = b \/ TextLess(a, b)

\* The stored records whose date lies between lo and hi as strings, both
\* ends included, in store order.
RecordsBetween(lo, hi) ==
    SelectSeq(rows, LAMBDA r : TextLeq(lo, r.date) /\ TextLeq(r.date, hi))

\* The last request was answered by the error response and lists no record.
Rejected == out.status = "400" /\ out.body = <<>>

\* A request for category or keyword without its parameter is rejected.
OmittedParameterRejected ==
    (/\ out.op \in {"get_transactions_by_category", "get_transactions_by_keyword"}
     /\ IsNull(out.args))
    => Rejected

\* C11 as claimed: a request that omits a required parameter is rejected:
\* /transactions/date_range without start_date or without end_date (and
\* /transactions/category without category, /transactions/keyword without
\* keyword) is answered by a 400 error that lists no record; whenever both
\* dates are sent, the response is exactly the records with
\* start_date <= date <= end_date under string ordering, both ends included.
C11_RangeWheneverBothSent ==
    /\ OmittedParameterRejected
    /\ out.op = "get_transactions_by_date_range"
       => IF IsNull(out.args[1]) \/ IsNull(out.args[2])
          THEN Rejected
          ELSE /\ out.status = "200"
               /\ out.body = RecordsBetween(Val(out.args[1]), Val(out.args[2]))

\* C11 as amended: /transactions/date_range without start_date or without
\* end_date, or with either sent as the empty text (and
\* /transactions/category without category, /transactions/keyword without
\* keyword), is answered by a 400 error that lists no record; when both
\* dates are sent and neither is empty, the response is exactly the records
\* with start_date <= date <= end_date under string ordering, both ends
\* included.
C11_RangeWhenBothNonEmpty ==
    /\ OmittedParameterRejected
    /\ out.op = "get_transactions_by_date_range"
       => IF \E k \in {1, 2} : IsNull(out.args[k]) \/ Val(out.args[k]) = <<>>
          THEN Rejected
          ELSE /\ out.status = "200"
               /\ out.body = RecordsBetween(Val(out.args[1]), Val(out.args[2]))

\* A range ending on 2024-05-31 has listed the record of that day and left
\* out an earlier record that lies before its start.
C11_Witness ==
    /\ out.op = "get_transactions_by_date_range"
    /\ out.status = "200"
    /\ out.args[2] = Some(T_2024_05_31)
    /\ Len(rows) = 2
    /\ Len(out.body) = 1
    /\ out.body[1].date = T_2024_05_31

\* The place of the first data row of the file that cannot be inserted (a
\* row with no date, no category or no amount), or one past the last row.
FirstFailingRow(file) ==
    LET fails(k) == \E c \in {"date", "category", "amount"} :
                       IsNull(file.rows[k][c])
    IN  IF \E k \in 1..Len(file.rows) : fails(k)
        THEN CHOOSE k \in 1..Len(file.rows) :
                 fails(k) /\ \A j \in 1..(k - 1) : ~fails(j)
        ELSE Len(file.rows) + 1

\* The records the data rows of the file make, ids aside.
RecordsOf(file) ==
    [k \in 1..Len(file.rows) |->
        [date |-> Val(file.rows[k]["date"]),
         category |-> Val(file.rows[k]["category"]),
         amount |-> Val(file.rows[k]["amount"]),
         description |-> file.rows[k]["description"]]]

\* The records rs without their ids.
WithoutIds(rs) ==
    [k \in 1..Len(rs) |->
        [date |-> rs[k].date, category |-> rs[k].category,
         amount |-> rs[k].amount, description |-> rs[k].description]]

\* C12: a CSV import is all-or-nothing at the first failing row.  The
\* import begins on the committed store and leaves it alone until its end:
\* at every moment during the import the committed store, and so every
\* answer of /transactions, is the store before the import.  The import
\* inserts the rows in file order up to the first row whose insert fails,
\* reports the failure there and inserts no later row.  It ends in one of
\* two ways: every row was inserted and the one commit adds all the rows
\* of the file after the records stored before, or a row failed and the
\* committed store and its id counter are those before the import, and a
\* listing asked for after the failure shows the store before the import.
\* No step of an import leaves a proper non-empty prefix of its rows in the
\* committed store.
C12_ImportAllOrNothing ==
    [][/\ (IsNull(conn) /\ ~IsNull(conn'))
          => Val(conn').before = rows
       /\ ~IsNull(conn')
          => LET c == Val(conn')
                 file == Val(c.file_path)
             IN  /\ rows' = c.before
                 /\ out'.op = "get_all_transactions" => out'.body = c.before
                 /\ out'.op = "view_transactions"
                    => IF c.before = <<>> THEN out'.status = "no_data"
                       ELSE out'.body = c.before
                 /\ c.next <= FirstFailingRow(file)
                 /\ Len(c.rows) = Len(c.before) + c.next - 1
                 /\ c.pc \in {"except", "garbage"}
                    => /\ c.next = FirstFailingRow(file)
                       /\ c.next <= Len(file.rows)
                 /\ (c.pc = "except" /\ out'.op = "upload_csv")
                    => out'.status = "failed"
       /\ (~IsNull(conn) /\ IsNull(conn'))
          => LET c == Val(conn)
                 file == Val(c.file_path)
             IN  IF FirstFailingRow(file) > Len(file.rows)
                 THEN /\ out'.status = "uploaded"
                      /\ SubSeq(rows', 1, Len(c.before)) = c.before
                      /\ WithoutIds(SubSeq(rows', Len(c.before) + 1, Len(rows')))
                            = RecordsOf(file)
                 ELSE /\ rows' = c.before
                      /\ seq' = seq]_vars

\* The second row of a file has failed after its first row was inserted on
\* the connection, on a store that holds a record, and /transactions,
\* asked before the handler returned, listed the store before the import.
C12_Witness ==
    /\ ~IsNull(conn)
    /\ Val(conn).pc = "except"
    /\ Val(conn).next = 2
    /\ Len(Val(conn).rows) = Len(rows) + 1
    /\ Len(rows) >= 1
    /\ out.op = "get_all_transactions"
    /\ out.body = Val(conn).before

====
